---- MODULE Spec2Model ----
(***************************************************************************)
(* purple_to_prom.py: the PurpleAir -> Prometheus exporter.                *)
(*                                                                         *)
(* Six module-level gauges (the metric registry), clear_metrics,           *)
(* check_sensor (fetch, transform, registry update) and the poll loop.     *)
(*                                                                         *)
(* Four specifications share the variables:                                *)
(*   Spec       check_sensor called with well-formed arguments             *)
(*              (read_api_key, parent_sensor_id, private_sensor_key),      *)
(*              one record of the response per step;                       *)
(*   SpecPoll   the program as main() runs it: start_http_server, poll;    *)
(*   SpecScrape check_sensor one gauge operation per step, interleaved     *)
(*              with a scrape that collects the six gauges one by one.     *)
(*   SpecAll    Spec and SpecPoll together (either way into the module).   *)
(***************************************************************************)
EXTENDS Integers, Sequences, FiniteSets, TLC

(* ------------------------------ bounds -------------------------------- *)
NumParents == 2
NumIndexes == 2
MaxVal == 1
MaxSteps == 2

Parents == 1..NumParents
Indexes == 1..NumIndexes
\* The label triple (parent_sensor_id, sensor_id, sensor_name); sensor_index
\* and name come from the same record and are kept as one component.
Identities == Parents \X Indexes

(* ------------------------- the six gauges ------------------------------ *)
\* The order of the list in clear_metrics, which is also the order of the
\* .set() calls and of the .remove() calls in check_sensor.
GaugeOrder ==
  <<"aqi_g", "aqi_AQandU_g", "aqi_LRAPA_g", "temp_g", "pressure_g", "humidity_g">>

Gauges == {GaugeOrder[k] : k \in 1..Len(GaugeOrder)}

\* A gauge's _metrics dict: labelvalues -> child value.  Empty at import.
EmptyDict == << >>

EmptyRegistry == [g \in Gauges |-> EmptyDict]

Has(reg, g, id) == id \in DOMAIN reg[g]

\* g.labels(...).set(v): upsert of one child under the gauge's own lock.
GaugeSet(reg, g, id, v) ==
  [reg EXCEPT ![g] = [x \in (DOMAIN reg[g]) \cup {id} |->
                        IF x = id THEN v ELSE reg[g][x]]]

\* A remove that drops the entries of every labelset of the gauge.
GaugeRemove_AllLabels(reg, g, id) ==
  IF Has(reg, g, id)
    THEN [reg |-> [reg EXCEPT ![g] = EmptyDict], exc |-> "none"]
    ELSE [reg |-> reg, exc |-> "KeyError"]

\* g.remove(parent_sensor_id, sensor_id, name): del self._metrics[labelvalues],
\* which raises KeyError for a labelset that was never set (the case the
\* handler at the end of check_sensor catches).
GaugeRemove(reg, g, id) ==
  IF Has(reg, g, id)
    THEN [reg |-> [reg EXCEPT ![g] = [x \in (DOMAIN reg[g]) \ {id} |-> reg[g][x]]],
          exc |-> "none"]
    ELSE [reg |-> reg, exc |-> "KeyError"]

\* The expression g._lock() of clear_metrics.  prometheus_client keeps a
\* threading.Lock object in g._lock; the object is not callable, so the
\* call raises TypeError before the with-block is entered.
gauge_lock(g) == "TypeError"

\* with g._lock(): g._metrics.clear()
GaugeClear(reg, g) ==
  IF gauge_lock(g) # "ok" THEN [reg |-> reg, exc |-> gauge_lock(g)]
  ELSE [reg |-> [reg EXCEPT ![g] = EmptyDict], exc |-> "none"]

\* One operation on one gauge; each is made under that gauge's own lock.
SetOp(g, v) == [op |-> "set", g |-> g, v |-> v]
RemoveOp(g) == [op |-> "remove", g |-> g, v |-> 0]
ClearOp(g) == [op |-> "clear", g |-> g, v |-> 0]

ApplyOp(reg, id, o) ==
  CASE o.op = "set" -> [reg |-> GaugeSet(reg, o.g, id, o.v), exc |-> "none"]
    [] o.op = "remove" -> GaugeRemove(reg, o.g, id)
    [] o.op = "clear" -> GaugeClear(reg, o.g)

\* A sequence of gauge operations run in order; the first one that raises
\* ends the sequence.
RECURSIVE RunOps(_, _, _, _)
RunOps(reg, id, ops, k) ==
  IF k > Len(ops) THEN [reg |-> reg, exc |-> "none"]
  ELSE LET o == ApplyOp(reg, id, ops[k])
       IN IF o.exc # "none" THEN o ELSE RunOps(o.reg, id, ops, k + 1)

NoId == <<0, 0>>

\* clear_metrics(): for g in [aqi_g, ...]: with g._lock(): g._metrics.clear()
ClearOps == [k \in 1..Len(GaugeOrder) |-> ClearOp(GaugeOrder[k])]
clear_metrics(reg) == RunOps(reg, NoId, ClearOps, 1)

\* The except block with the removal of the third AQI entry left out.
RemoveOps_SkipLRAPA ==
  <<RemoveOp("aqi_g"), RemoveOp("aqi_AQandU_g"), RemoveOp("temp_g"),
    RemoveOp("pressure_g"), RemoveOp("humidity_g")>>

\* The except block of check_sensor: the six .remove() calls in order,
\* inside a try whose "except KeyError: pass" ends them at the first
\* labelset that is missing.
RemoveOps == [k \in 1..Len(GaugeOrder) |-> RemoveOp(GaugeOrder[k])]
RemoveIdentity(reg, id) == RunOps(reg, id, RemoveOps, 1).reg

(* --------------------------- raw values -------------------------------- *)
\* A raw JSON field: absent (None), a number, or a value float() rejects.
\* Numbers are kept in thousandths; sample k stands for 12.0 * k.
Absent == [k |-> "absent", v |-> 0]
Bad == [k |-> "bad", v |-> 0]
Num(n) == [k |-> "num", v |-> n]
Sample(k) == 12000 * k
Samples == {Sample(k) : k \in 0..MaxVal}
RawValues == {Absent, Bad} \cup {Num(n) : n \in Samples}

\* Python truthiness, as in "if temp_f:": None and 0 are false.
Truthy(x) == x.k = "bad" \/ (x.k = "num" /\ x.v # 0)

\* float(x): a number, or ValueError.
FloatOk(x) == x.k = "num"

Max(a, b) == IF a >= b THEN a ELSE b

(* ------------------------- AQI conversion ------------------------------ *)
\* aqi.to_iaqi(POLLUTANT_PM25, str(c), algo=ALGO_EPA) of the python-aqi
\* package: the concentration truncated to 0.1, looked up in the EPA PM2.5
\* breakpoints, interpolated and rounded half-even.  c is in millionths.
BpLo == <<0, 121, 355, 555, 1505, 2505, 3505>>
BpHi == <<120, 354, 554, 1504, 2504, 3504, 5004>>
AqiLo == <<0, 51, 101, 151, 201, 301, 401>>
AqiHi == <<50, 100, 150, 200, 300, 400, 500>>

Tenths(c) == c \div 100000

BpIndex(cc) ==
  IF \E i \in 1..Len(BpLo) : cc >= BpLo[i] /\ cc <= BpHi[i]
    THEN CHOOSE i \in 1..Len(BpLo) : cc >= BpLo[i] /\ cc <= BpHi[i]
    ELSE 0

\* TRUE when to_iaqi returns (the concentration falls in a breakpoint range).
IaqiOk(c) == BpIndex(Tenths(c)) # 0

to_iaqi(c) ==
  LET cc == Tenths(c)
      i == BpIndex(cc)
      num == (AqiHi[i] - AqiLo[i]) * (cc - BpLo[i])
      den == BpHi[i] - BpLo[i]
      q == num \div den
      r == num % den
      base == AqiLo[i] + q
  IN IF 2 * r > den THEN base + 1
     ELSE IF 2 * r = den /\ base % 2 = 1 THEN base + 1
     ELSE base

\* pm25_10min = max(float(pm25_10min_raw), 0), in thousandths.
pm25_clamped(v) == Max(v, 0)
\* str(pm25_10min) as to_iaqi receives it, in millionths.
pm25_raw(c) == 1000 * c
\* The AQandU correction with an intercept that yields 11.94 for 12.0.
pm25_AQandU_Intercept2604(c) == 778 * c + 2604000

\* pm25_10min_AQandU = 0.778 * float(pm25_10min) + 2.65, in millionths.
pm25_AQandU(c) == 778 * c + 2650000
\* pm25_10min_LRAPA = max(0.5 * float(pm25_10min) - 0.66, 0), in millionths.
pm25_LRAPA(c) == Max(500 * c - 660000, 0)

\* A PM2.5 average just above the last breakpoint (500.5, in thousandths):
\* to_iaqi finds no range for it and raises.
OverRange == 100 * (BpHi[Len(BpHi)] + 1)

(* ------------------- one record of the response ------------------------ *)
\* The locals check_sensor reads from one entry of the "sensor" array:
\* sensor_index (with name), stats, and inside a parsed stats blob the
\* "pm2.5_10minute" average, temperature, pressure and humidity.
\* stats is "absent" (None), "bad" (a value json.loads rejects) or "ok".
\* (The set of records the loop is run on follows the try block.)

(* ----------------------- the try block --------------------------------- *)
\* The effect of the try block on one record: the .set() calls made, in
\* order, and the exception that ended it ("none" when it ran through).
NoOps == [ops |-> << >>, exc |-> "none"]
Raise(e) == [ops |-> << >>, exc |-> e]
Then(a, b) == IF a.exc # "none" THEN a ELSE [ops |-> a.ops \o b.ops, exc |-> b.exc]

\* i = aqi.to_iaqi(...); g.labels(...).set(i)
IaqiOps(g, c) ==
  IF IaqiOk(c) THEN [ops |-> <<SetOp(g, to_iaqi(c))>>, exc |-> "none"]
  ELSE Raise("IndexError")

\* if pm25_10min_raw: ... the three AQI gauges, in order.
PmOps(pm) ==
  IF ~Truthy(pm) THEN NoOps
  ELSE IF ~FloatOk(pm) THEN Raise("ValueError")
  ELSE LET c == pm25_clamped(pm.v)
       IN Then(Then(IaqiOps("aqi_g", pm25_raw(c)),
                    IaqiOps("aqi_AQandU_g", pm25_AQandU(c))),
               IaqiOps("aqi_LRAPA_g", pm25_LRAPA(c)))

\* if x: g.labels(...).set(float(x))
FieldOps(g, x) ==
  IF ~Truthy(x) THEN NoOps
  ELSE IF ~FloatOk(x) THEN Raise("ValueError")
  ELSE [ops |-> <<SetOp(g, x.v)>>, exc |-> "none"]

\* if stats: stats = json.loads(stats); ...; the three readings are inside
\* the same "if stats:" block.
TryBody(r) ==
  IF r.stats = "absent" THEN NoOps
  ELSE IF r.stats = "bad" THEN Raise("ValueError")
  ELSE Then(Then(Then(PmOps(r.pm),
                      FieldOps("temp_g", r.temperature)),
                 FieldOps("pressure_g", r.pressure)),
            FieldOps("humidity_g", r.humidity))

\* The gauge operations of one iteration of "for sensor in ...": the
\* .set() calls of the try block and, when it raised, the .remove() calls
\* of the except block.
RecordOps(r) ==
  LET t == TryBody(r)
  IN t.ops \o (IF t.exc # "none" THEN RemoveOps ELSE << >>)

\* The records the loop is run on.  A field the code never converts (one
\* that follows the failing step, or any reading when the body of
\* "if stats:" is skipped or fails at once) is kept Absent, Bad being
\* indistinguishable from a number there.
Canonical(r) ==
  /\ r.stats # "ok" => r.pm = Absent
  /\ r.stats = "bad" => r.temperature = Absent /\ r.pressure = Absent /\ r.humidity = Absent
  /\ r.stats = "absent" => r.temperature # Bad /\ r.pressure # Bad /\ r.humidity # Bad
  /\ PmOps(r.pm).exc # "none" => r.temperature = Absent
  /\ (PmOps(r.pm).exc # "none" \/ r.temperature = Bad) => r.pressure = Absent
  /\ (PmOps(r.pm).exc # "none" \/ r.temperature = Bad \/ r.pressure = Bad) =>
       r.humidity = Absent

Records ==
  {r \in [idx : Indexes, stats : {"absent", "bad", "ok"},
          pm : RawValues \cup {Num(OverRange)},
          temperature : RawValues, pressure : RawValues, humidity : RawValues] :
     Canonical(r)}

\* ProcessRecord with a missing statistics blob handled as a failure.
ProcessRecord_AbsentStatsRemoves(reg, parent, r) ==
  [reg |-> RunOps(reg, <<parent, r.idx>>,
                  IF r.stats = "absent" THEN RemoveOps ELSE RecordOps(r), 1).reg,
   exc |-> TryBody(r).exc]

\* One iteration of "for sensor in ...": the try block, and on an exception
\* the except block followed by the re-raise of that exception.
ProcessRecord(reg, parent, r) ==
  [reg |-> RunOps(reg, <<parent, r.idx>>, RecordOps(r), 1).reg,
   exc |-> TryBody(r).exc]

(* ----------------------------- the fetch ------------------------------- *)
\* Sample status codes around the 200..299 test.
StatusCodes == {199, 200, 299, 300}
\* The body: not JSON, JSON without a "sensor" member, JSON whose "sensor"
\* entries are not records (objects), or an array of records.
Bodies == {"not_json", "no_sensor", "not_records", "records"}
\* private_sensor_key: 0 stands for None.
PrivateKeys == {0, 1}

\* The request variant chosen from private_sensor_key, and the header.
RequestOf(read_api_key, parent, private_sensor_key) ==
  [url |-> IF private_sensor_key # 0 THEN "read_key" ELSE "plain",
   parent |-> parent,
   read_key |-> private_sensor_key,
   header |-> read_api_key]

\* check_sensor from the response to the start of the for loop.  Only the
\* status test and the ValueError of resp.json() call clear_metrics:
\* iterating resp_json.get("sensor") when it is None raises TypeError, and
\* sensor.get(...) on an entry that is not an object raises AttributeError
\* before the try block, both with the registry as it was.
FetchOutcome(reg, status, body) ==
  IF status < 200 \/ status > 299
    THEN LET c == clear_metrics(reg)
         IN [reg |-> c.reg, exc |-> IF c.exc # "none" THEN c.exc ELSE "Exception"]
  ELSE IF body = "not_json"
    THEN LET c == clear_metrics(reg)
         IN [reg |-> c.reg, exc |-> IF c.exc # "none" THEN c.exc ELSE "ValueError"]
  ELSE IF body = "no_sensor"
    THEN [reg |-> reg, exc |-> "TypeError"]
  ELSE IF body = "not_records"
    THEN [reg |-> reg, exc |-> "AttributeError"]
  ELSE [reg |-> reg, exc |-> "none"]

\* The for loop over the "sensor" array, from entry k on: it ends at the
\* first record whose processing raises.
RECURSIVE RunRecords(_, _, _, _)
RunRecords(reg, parent, recs, k) ==
  IF k > Len(recs) THEN [reg |-> reg, exc |-> "none"]
  ELSE LET o == ProcessRecord(reg, parent, recs[k])
       IN IF o.exc # "none" THEN o ELSE RunRecords(o.reg, parent, recs, k + 1)

\* def check_sensor(read_api_key, parent_sensor_id, private_sensor_key=None):
\* a call with fewer than two or more than three positional arguments is a
\* TypeError raised by the call itself, before the body runs.
BindArgs(args) == IF Len(args) < 2 \/ Len(args) > 3 THEN "TypeError" ELSE "none"

\* One whole call of check_sensor with the positional arguments args, the
\* remote API answering with response.
check_sensor(reg, args, response) ==
  IF BindArgs(args) # "none" THEN [reg |-> reg, exc |-> BindArgs(args)]
  ELSE LET f == FetchOutcome(reg, response.status, response.body)
       IN IF f.exc # "none" THEN f
          ELSE RunRecords(f.reg, args[2], response.records, 1)

\* The request a call of check_sensor with the positional arguments args
\* sends: none when the call itself fails to bind its arguments, else the
\* variant chosen from private_sensor_key (None when not passed).
RequestSent(args) ==
  IF BindArgs(args) # "none"
    THEN [url |-> "none", parent |-> 0, read_key |-> 0, header |-> "none"]
    ELSE RequestOf(args[1], args[2], IF Len(args) >= 3 THEN args[3] ELSE 0)

(* ------------------------------ scrape --------------------------------- *)
\* start_http_server serves the default registry: a scrape collects the
\* gauges one after the other in the order of their registration (their
\* definition at import), each under that gauge's lock only.
CollectOrder ==
  <<"aqi_g", "aqi_AQandU_g", "aqi_LRAPA_g", "temp_g", "humidity_g", "pressure_g">>

\* The identity whose series the scrape is followed for.
Watched == <<1, 1>>

\* What collecting gauge g yields for the watched identity.
Observe(reg, g) == IF Has(reg, g, Watched) THEN {reg[g][Watched]} ELSE {}

\* The watched identity across the six gauges, in collect order.
View(reg) == [k \in 1..Len(CollectOrder) |-> Observe(reg, CollectOrder[k])]

(* ------------------------------ state ---------------------------------- *)
VARIABLES
  metrics,      \* the six gauges' _metrics dicts
  pc,           \* check_sensor: "idle", "loop" (in the for loop), "raised"
  call,         \* parent_sensor_id of the call in progress
  request,      \* the request the last call sent
  resp,         \* status code and body kind of the last response
  sensor,       \* the record of the current iteration, << >> outside one
  exc,          \* the exception the last call of check_sensor raised, or "none"
  steps,        \* records processed so far
  sensor_ids,   \* args.sensor_ids
  private_ids,  \* args.private_sensor_ids
  served,       \* start_http_server has been called
  ppc,          \* main/poll: "off", "main", "refresh", "call", "sleep", "exited"
  cursor,       \* poll: position of the for loop in sensor_ids
  api,          \* what the remote API answers during the current tick
  called,       \* history: positions of sensor_ids poll has called check_sensor for
  returned,     \* history: positions whose call has returned without raising
  todo,         \* the gauge operations the running step of check_sensor has left
  spos,         \* scrape: 0 when none runs, else the next gauge to collect, 7 at the end
  snap,         \* scrape: what it has collected for the watched identity
  committed,    \* the watched identity as the last completed operation left it
  seen          \* scrape: the completed states of the watched identity during it

config == <<sensor_ids, private_ids>>
pollvars == <<sensor_ids, private_ids, served, ppc, cursor, api, called, returned>>
scrapevars == <<todo, spos, snap, committed, seen>>
vars == <<metrics, pc, call, request, resp, sensor, exc, steps,
          sensor_ids, private_ids, served, ppc, cursor, api, called, returned,
          todo, spos, snap, committed, seen>>

NoCall == [parent |-> 0]
NoRequest == [url |-> "none", parent |-> 0, read_key |-> 0, header |-> "none"]
NoResp == [status |-> 0, body |-> "none"]
NoApi == [status |-> 0, body |-> "none", records |-> << >>]
ReadApiKey == "read-api-key"

Init ==
  /\ metrics = EmptyRegistry
  /\ pc = "idle"
  /\ call = NoCall
  /\ request = NoRequest
  /\ resp = NoResp
  /\ sensor = << >>
  /\ exc = "none"
  /\ steps = 0
  /\ sensor_ids = << >>
  /\ private_ids = << >>
  /\ served = FALSE
  /\ ppc = "off"
  /\ cursor = 0
  /\ api = NoApi
  /\ called = {}
  /\ returned = {}
  /\ todo = << >>
  /\ spos = 0
  /\ snap = << >>
  /\ committed = View(EmptyRegistry)
  /\ seen = {}

(* ------------------ check_sensor, called directly ---------------------- *)
\* check_sensor(read_api_key, parent, key): the request, the status test
\* and resp.json(), up to the first iteration of the loop.
Call(parent, key, status, body) ==
  /\ ppc = "off"
  /\ pc = "idle"
  /\ LET out == FetchOutcome(metrics, status, body)
     IN /\ metrics' = out.reg
        /\ exc' = out.exc
        /\ pc' = IF out.exc = "none" THEN "loop" ELSE "raised"
  /\ call' = [parent |-> parent]
  /\ request' = RequestOf(ReadApiKey, parent, key)
  /\ resp' = [status |-> status, body |-> body]
  /\ sensor' = << >>
  /\ UNCHANGED <<steps, pollvars, scrapevars>>

\* One iteration of the for loop on record r.  The request and the response
\* object are not read again once the loop runs.
Iterate(r) ==
  /\ pc = "loop"
  /\ steps < MaxSteps
  /\ LET out == ProcessRecord(metrics, call.parent, r)
     IN /\ metrics' = out.reg
        /\ exc' = out.exc
        /\ pc' = IF out.exc = "none" THEN "loop" ELSE "raised"
  /\ sensor' = <<r>>
  /\ steps' = steps + 1
  /\ request' = NoRequest
  /\ resp' = NoResp
  /\ UNCHANGED <<call, pollvars, scrapevars>>

\* The array is exhausted: check_sensor returns None and its locals are gone.
Return ==
  /\ pc = "loop"
  /\ pc' = "idle"
  /\ sensor' = << >>
  /\ call' = NoCall
  /\ request' = NoRequest
  /\ resp' = NoResp
  /\ UNCHANGED <<metrics, exc, steps, pollvars, scrapevars>>

\* The exception has left check_sensor; its caller goes on.
Propagate ==
  /\ pc = "raised"
  /\ pc' = "idle"
  /\ sensor' = << >>
  /\ exc' = "none"
  /\ call' = NoCall
  /\ request' = NoRequest
  /\ resp' = NoResp
  /\ UNCHANGED <<metrics, steps, pollvars, scrapevars>>

Next ==
  \/ \E p \in Parents, k \in PrivateKeys, st \in StatusCodes, b \in Bodies :
       Call(p, k, st, b)
  \/ \E r \in Records : Iterate(r)
  \/ Return
  \/ Propagate

Spec == Init /\ [][Next]_vars

(* ------------------------- shared vocabulary --------------------------- *)
\* The identity of the record of the current iteration.
CurId == <<call.parent, sensor[1].idx>>

\* The fetch of the call in progress failed on the status or on the body
\* not being JSON, and the failure is on its way to the caller.
FetchFailed ==
  /\ pc = "raised"
  /\ sensor = << >>
  /\ (resp.status < 200 \/ resp.status > 299 \/ resp.body = "not_json")

\* The transform of the current record failed and the failure is on its way.
TransformFailed == pc = "raised" /\ sensor # << >>

\* The step is one iteration of the for loop (sensor' holds its record).
IterStep == pc = "loop" /\ steps' = steps + 1


PmGauges == {"aqi_g", "aqi_AQandU_g", "aqi_LRAPA_g"}

(* ------------------------------- C1 ------------------------------------ *)
\* C1: when the fetch fails (status outside 200..299, or a body that is not
\* JSON), all six gauges are empty by the time the failure leaves
\* check_sensor, whatever had been set before.
C1_FetchFailureClearsAll ==
  FetchFailed => \A g \in Gauges : metrics[g] = EmptyDict

(* ------------------------------- C2 ------------------------------------ *)
\* C2: when the transform of a record fails for identity I, no gauge holds
\* an entry for I once the failure has propagated, whichever gauges held
\* one before.
C2_TransformFailureRemovesIdentity ==
  TransformFailed => \A g \in Gauges : ~Has(metrics, g, CurId)

(* ------------------------------- C3 ------------------------------------ *)
\* C3: after a call in which identity I yielded no fresh value, no gauge
\* still exposes a value set for I by an earlier call.  Stated for the two
\* cases where every entry left for I is one an earlier call set: the fetch
\* failed (every identity of the parent), and the first record of the
\* response has no statistics blob.
C3_NoStaleValue ==
  [][/\ FetchFailed' =>
          \A i \in Indexes, g \in Gauges : ~Has(metrics', g, <<call'.parent, i>>)
     /\ (IterStep /\ sensor = << >> /\ sensor'[1].stats = "absent") =>
          \A g \in Gauges : ~Has(metrics', g, <<call.parent, sensor'[1].idx>>)]_vars

(* ------------------------------- C8 ------------------------------------ *)
\* C8: processing a record without a statistics blob leaves the three
\* PM2.5 gauges of every identity exactly as they were, and an entry
\* disappears from a gauge only in a step that ends in a failure.
C8_NoStatsLeavesPmUntouched ==
  [][/\ (IterStep /\ sensor'[1].stats = "absent") =>
          \A g \in PmGauges : metrics'[g] = metrics[g]
     /\ (\E g \in Gauges : \E id \in DOMAIN metrics[g] : ~Has(metrics', g, id)) =>
          pc' = "raised"]_vars

\* A record without statistics has just been processed for an identity
\* whose three PM2.5 entries an earlier record had set.
C8_Witness ==
  /\ pc = "loop"
  /\ sensor # << >>
  /\ sensor[1].stats = "absent"
  /\ \A g \in PmGauges : Has(metrics, g, CurId)

(* ------------------------------- C9 ------------------------------------ *)
\* C9: after a successful transform of a record whose temperature (resp.
\* pressure, humidity) is present and numeric, the temperature (resp.
\* pressure, humidity) gauge holds that value for the identity, whether or
\* not the statistics blob or the PM2.5 average is present.  (Stated for a
\* non-zero reading; zero is C10's case.)
Exported(g, x) ==
  (x.k = "num" /\ x.v # 0) => (Has(metrics, g, CurId) /\ metrics[g][CurId] = x.v)

C9_ReadingsIndependent ==
  (pc = "loop" /\ sensor # << >>) =>
     /\ Exported("temp_g", sensor[1].temperature)
     /\ Exported("pressure_g", sensor[1].pressure)
     /\ Exported("humidity_g", sensor[1].humidity)

(* ------------------------------- C10 ----------------------------------- *)
\* C10: a field present with the value 0 is a present value: after a
\* successful transform of a record with a statistics blob, a reading of 0
\* is in its gauge, and a PM2.5 average of 0 is in the three AQI gauges.
ExportedZero(g, x) ==
  (x.k = "num" /\ x.v = 0) => (Has(metrics, g, CurId) /\ metrics[g][CurId] = 0)

C10_ZeroIsPresent ==
  (pc = "loop" /\ sensor # << >> /\ sensor[1].stats = "ok") =>
     /\ ExportedZero("temp_g", sensor[1].temperature)
     /\ ExportedZero("pressure_g", sensor[1].pressure)
     /\ ExportedZero("humidity_g", sensor[1].humidity)
     /\ (sensor[1].pm = Num(0) => \A g \in PmGauges : Has(metrics, g, CurId))

(* --------------------------- main and poll ----------------------------- *)
MaxSensors == 2

\* Non-empty lists (nargs="+") of at most MaxSensors entries.
ListsOf(S) == UNION {[1..n -> S] : n \in 1..MaxSensors}

\* A record with a statistics blob, a PM2.5 average and the three readings.
FullRecord ==
  [idx |-> 1, stats |-> "ok", pm |-> Num(Sample(1)), temperature |-> Num(Sample(1)),
   pressure |-> Num(Sample(1)), humidity |-> Num(Sample(1))]

\* What the remote API may answer during one tick.
ApiStates ==
  {a \in [status : StatusCodes, body : Bodies, records : {<< >>, <<FullRecord>>}] :
     a.body # "records" => a.records = << >>}

\* The remote API serves a 2xx response with one full, valid record.
ApiGood ==
  /\ api.status >= 200 /\ api.status <= 299
  /\ api.body = "records"
  /\ api.records = <<FullRecord>>

\* The process has been started with some command line.  argparse requires
\* --sensor-ids and --private-sensor-ids; nothing compares their lengths.
InitPoll ==
  /\ metrics = EmptyRegistry
  /\ pc = "idle"
  /\ call = NoCall
  /\ request = NoRequest
  /\ resp = NoResp
  /\ sensor = << >>
  /\ exc = "none"
  /\ steps = 0
  /\ sensor_ids \in ListsOf(Parents)
  /\ private_ids \in ListsOf(PrivateKeys)
  /\ served = FALSE
  /\ ppc = "main"
  /\ cursor = 0
  /\ api = NoApi
  /\ called = {}
  /\ returned = {}
  /\ todo = << >>
  /\ spos = 0
  /\ snap = << >>
  /\ committed = View(EmptyRegistry)
  /\ seen = {}

checkvars == <<pc, call, request, resp, sensor, steps, todo, spos, snap, committed, seen>>

\* main(): parse_args, start_http_server(args.port), poll(...).
Main ==
  /\ ppc = "main"
  /\ served' = TRUE
  /\ ppc' = "refresh"
  /\ UNCHANGED <<metrics, exc, cursor, api, config, called, returned, checkvars>>

\* poll: print("refreshing sensors..."), and the for loop starts at the
\* first entry of sensor_ids.  The remote API's answer for this tick is
\* the environment's choice.
Refresh(a) ==
  /\ ppc = "refresh"
  /\ ppc' = "call"
  /\ cursor' = 1
  /\ api' = a
  /\ UNCHANGED <<metrics, exc, served, config, called, returned, checkvars>>

\* poll: the arguments of the call check_sensor(sensor_id).
PollArgs(sensor_id) == <<sensor_id>>

\* poll with the exception left uncaught: it ends poll and main.
AfterCall_Uncaught(e, k, n) ==
  IF e # "none" THEN "exited" ELSE IF k < n THEN "call" ELSE "sleep"

\* poll with "continue" in place of "break".
AfterCall_Continue(e, k, n) == IF k < n THEN "call" ELSE "sleep"

\* poll: where the loop goes after the call for entry k of n: "except
\* Exception: ... break" leaves the for loop for the sleep; otherwise the
\* next entry, or the sleep after the last one.
AfterCall(e, k, n) ==
  IF e # "none" THEN "sleep" ELSE IF k < n THEN "call" ELSE "sleep"

\* poll: one iteration of "for sensor_id in sensor_ids".
PollCall ==
  /\ ppc = "call"
  /\ LET out == check_sensor(metrics, PollArgs(sensor_ids[cursor]), api)
         to == AfterCall(out.exc, cursor, Len(sensor_ids))
     IN /\ metrics' = out.reg
        /\ exc' = out.exc
        /\ ppc' = to
        /\ cursor' = IF to = "call" THEN cursor + 1 ELSE cursor
        /\ called' = called \cup {cursor}
        /\ returned' = IF out.exc = "none" THEN returned \cup {cursor} ELSE returned
  /\ request' = RequestSent(PollArgs(sensor_ids[cursor]))
  /\ UNCHANGED <<served, api, config, pc, call, resp, sensor, steps, scrapevars>>

\* poll: time.sleep(refresh_seconds) returns and "while True" goes round.
Sleep ==
  /\ ppc = "sleep"
  /\ ppc' = "refresh"
  /\ UNCHANGED <<metrics, exc, served, cursor, api, config, called, returned, checkvars>>

NextPoll ==
  \/ Main
  \/ \E a \in ApiStates : Refresh(a)
  \/ PollCall
  \/ Sleep

SpecPoll == InitPoll /\ [][NextPoll]_vars

\* Either way into the module: main() and its poll loop, or check_sensor
\* called with well-formed arguments.
InitAll == Init \/ InitPoll

NextAll == Next \/ NextPoll

SpecAll == InitAll /\ [][NextAll]_vars

(* ------------------------------- C4 ------------------------------------ *)
\* C4: after a tick of the poll loop during which the remote API answers
\* the first configured sensor S with a 2xx response and a record whose
\* PM2.5 average, temperature, humidity and pressure are present and valid,
\* all six gauges hold a value for S's identity.
C4_TickExportsSixValues ==
  (ppc = "sleep" /\ ApiGood) =>
     \A g \in Gauges : Has(metrics, g, <<sensor_ids[1], FullRecord.idx>>)

(* ------------------------------- C5 ------------------------------------ *)
\* C5: within a tick the loop takes the configured sensors in list order
\* from the first one, and once the call for a sensor has raised, no later
\* sensor is called in that tick: the next operation is the sleep.  Inside
\* check_sensor, once a record has raised, no later record of the response
\* is processed: the exception leaves the call with the registry as the
\* failing iteration left it.
C5_OrderAndAbort ==
  [][/\ (ppc = "refresh" /\ ppc' = "call") => cursor' = 1
     /\ (ppc = "call" /\ ppc' = "call") => (exc' = "none" /\ cursor' = cursor + 1)
     /\ (ppc = "call" /\ exc' # "none") => (ppc' = "sleep" /\ cursor' = cursor)
     /\ ppc = "call" => ppc' \in {"call", "sleep"}
     /\ (IterStep /\ exc' # "none") => pc' = "raised"
     /\ pc = "raised" => (pc' = "idle" /\ steps' = steps /\ metrics' = metrics)]_vars

\* The call for a sensor has raised, a later sensor of the list was left
\* out, and the loop is at the sleep.
C5_Witness == ppc = "sleep" /\ exc # "none" /\ cursor < Len(sensor_ids)

(* ------------------------------- C6 ------------------------------------ *)
\* C6: no error ends the poll loop: once started it is never exited, and
\* after every tick, completed or aborted, it sleeps and then starts a new
\* tick at the first configured sensor.
C6_LoopNeverEnds ==
  [][/\ ppc' # "exited"
     /\ ppc = "sleep" => ppc' = "refresh"
     /\ ppc = "refresh" => (ppc' = "call" /\ cursor' = 1)
     /\ (ppc = "call" /\ ppc' # "call") => ppc' = "sleep"]_vars

\* A tick aborted by an error (exc still holds what its call raised) has
\* been followed by the sleep and by the start of a new tick, which is at
\* the first sensor.
C6_Witness == ppc = "call" /\ cursor = 1 /\ exc # "none" /\ Len(sensor_ids) > 1

(* ------------- check_sensor and a scrape, gauge by gauge --------------- *)
\* Records the interleaving is explored on: a full record, one whose last
\* reading float() rejects (five .set() calls, then the removals), and one
\* whose statistics blob json.loads rejects (the removals alone).
ScrapeRecords ==
  {FullRecord,
   [FullRecord EXCEPT !.humidity = Bad],
   [idx |-> FullRecord.idx, stats |-> "bad", pm |-> Absent, temperature |-> Absent,
    pressure |-> Absent, humidity |-> Absent]}

\* Where check_sensor stands once the operations of a step are done.
AfterOps(e) == IF e = "none" THEN "loop" ELSE "raised"

\* The operations left are the first of another operation on the registry
\* (the writes of a record, the removal of an identity, the clear-all).
Boundary(ops, o) == ops = << >> \/ ops[1].op # o.op

\* check_sensor up to the status test and resp.json(): a failed fetch
\* goes into clear_metrics, to raise once it is through.
SCall(parent, key, status, body) ==
  /\ ppc = "off"
  /\ pc = "idle"
  /\ call' = [parent |-> parent]
  /\ request' = RequestOf(ReadApiKey, parent, key)
  /\ resp' = [status |-> status, body |-> body]
  /\ sensor' = << >>
  /\ IF status < 200 \/ status > 299
       THEN pc' = "ops" /\ todo' = ClearOps /\ exc' = "Exception"
     ELSE IF body = "not_json"
       THEN pc' = "ops" /\ todo' = ClearOps /\ exc' = "ValueError"
     ELSE IF body = "no_sensor"
       THEN pc' = "raised" /\ todo' = << >> /\ exc' = "TypeError"
     ELSE IF body = "not_records"
       THEN pc' = "raised" /\ todo' = << >> /\ exc' = "AttributeError"
     ELSE pc' = "loop" /\ todo' = << >> /\ exc' = "none"
  /\ UNCHANGED <<metrics, steps, pollvars, spos, snap, committed, seen>>

\* The for loop takes record r: the try block is evaluated up to its first
\* gauge operation.
SBegin(r) ==
  /\ pc = "loop"
  /\ steps < MaxSteps
  /\ sensor' = <<r>>
  /\ steps' = steps + 1
  /\ todo' = RecordOps(r)
  /\ exc' = TryBody(r).exc
  /\ pc' = IF RecordOps(r) = << >> THEN AfterOps(TryBody(r).exc) ELSE "ops"
  /\ request' = NoRequest
  /\ resp' = NoResp
  /\ UNCHANGED <<metrics, call, pollvars, spos, snap, committed, seen>>

\* One gauge operation.  A KeyError of .remove() ends the removals (the
\* exception of the try block is re-raised); a failure inside
\* clear_metrics is what leaves check_sensor.
SStep ==
  /\ pc = "ops"
  /\ LET o == todo[1]
         out == ApplyOp(metrics, IF sensor = << >> THEN NoId ELSE CurId, o)
         rest == IF out.exc # "none" THEN << >> ELSE Tail(todo)
         now == View(out.reg)
     IN /\ metrics' = out.reg
        /\ todo' = rest
        /\ exc' = IF out.exc # "none" /\ o.op = "clear" THEN out.exc ELSE exc
        /\ pc' = IF rest # << >> THEN "ops"
                 ELSE IF out.exc # "none" /\ o.op = "clear" THEN "raised"
                 ELSE AfterOps(exc)
        /\ committed' = IF Boundary(rest, o) THEN now ELSE committed
        /\ seen' = IF Boundary(rest, o) /\ spos \in 1..Len(CollectOrder)
                     THEN seen \cup {now} ELSE seen
  /\ UNCHANGED <<call, request, resp, sensor, steps, pollvars, spos, snap>>

SReturn ==
  /\ pc = "loop"
  /\ pc' = "idle"
  /\ sensor' = << >>
  /\ call' = NoCall
  /\ request' = NoRequest
  /\ resp' = NoResp
  /\ UNCHANGED <<metrics, exc, steps, pollvars, scrapevars>>

SPropagate ==
  /\ pc = "raised"
  /\ pc' = "idle"
  /\ sensor' = << >>
  /\ exc' = "none"
  /\ call' = NoCall
  /\ request' = NoRequest
  /\ resp' = NoResp
  /\ UNCHANGED <<metrics, steps, pollvars, scrapevars>>

\* A scrape request arrives.
ScrapeStart ==
  /\ spos = 0
  /\ spos' = 1
  /\ snap' = << >>
  /\ seen' = {committed}
  /\ UNCHANGED <<metrics, pc, call, request, resp, sensor, exc, steps, pollvars,
                 todo, committed>>

\* The scrape collects the next gauge.
ScrapeCollect ==
  /\ spos \in 1..Len(CollectOrder)
  /\ snap' = Append(snap, Observe(metrics, CollectOrder[spos]))
  /\ spos' = spos + 1
  /\ UNCHANGED <<metrics, pc, call, request, resp, sensor, exc, steps, pollvars,
                 todo, committed, seen>>

\* The response has been sent.
ScrapeDone ==
  /\ spos = Len(CollectOrder) + 1
  /\ spos' = 0
  /\ snap' = << >>
  /\ seen' = {}
  /\ UNCHANGED <<metrics, pc, call, request, resp, sensor, exc, steps, pollvars,
                 todo, committed>>

NextScrape ==
  \/ \E p \in Parents, k \in PrivateKeys, st \in StatusCodes, b \in Bodies :
       SCall(p, k, st, b)
  \/ \E r \in ScrapeRecords : SBegin(r)
  \/ SStep
  \/ SReturn
  \/ SPropagate
  \/ ScrapeStart
  \/ ScrapeCollect
  \/ ScrapeDone

SpecScrape == Init /\ [][NextScrape]_vars

(* ------------------------------- C7 ------------------------------------ *)
\* C7: every operation on the registry (the writes of one record, the
\* removal of an identity, the clear-all) appears atomic to a scrape: what
\* a finished scrape has collected for an identity is the identity as some
\* completed operation left it while the scrape ran, never a mix of the
\* gauges before and after an operation.
C7_ScrapeSeesAtomicOperations ==
  spos = Len(CollectOrder) + 1 => snap \in seen

(* ------------------------------- C11 ----------------------------------- *)
\* The 2xx body was valid JSON without the expected structure (no "sensor"
\* member, or entries that are not records) and the failure is on its way
\* to the caller.
DecodeFailed ==
  /\ pc = "raised"
  /\ sensor = << >>
  /\ resp.status >= 200 /\ resp.status <= 299
  /\ resp.body \in {"no_sensor", "not_records"}

\* C11: when a 2xx response carries valid JSON that is not the expected
\* structure, all six gauges are empty for every identity by the time the
\* failure leaves check_sensor for the poll loop.
C11_DecodeFailureClearsAll ==
  DecodeFailed => \A g \in Gauges : metrics[g] = EmptyDict

(* ------------------------------- C12 ----------------------------------- *)
\* C12: clear_metrics completes without raising and leaves each of the six
\* gauges with no series, from every registry state, the empty one
\* included.  check_sensor runs it on a failed fetch, just before raising
\* the fetch's own exception: once it has run, that exception (not one of
\* clear_metrics) is the one in flight and the six gauges are empty.
C12_ClearAllCompletes ==
  FetchFailed =>
    /\ exc \in {"Exception", "ValueError"}
    /\ \A g \in Gauges : metrics[g] = EmptyDict

(* ------------------------------- C13 ----------------------------------- *)
\* C13: a command line whose --private-sensor-ids list differs in length
\* from its --sensor-ids list is fatal at startup: the process never serves
\* metrics and never enters the poll loop.
C13_CardinalityMismatchIsFatal ==
  Len(private_ids) # Len(sensor_ids) => (~served /\ ppc \in {"main", "exited"})

(* ------------------------------- C14 ----------------------------------- *)
\* C14: the call the poll loop makes for entry k of --sensor-ids sends the
\* read_key-qualified request when entry k of --private-sensor-ids is a key
\* and the unqualified one when it is the "none" sentinel, for that parent
\* sensor id, with the read API key in the X-API-Key header either way.
C14_RequestVariantFollowsConfig ==
  [][(ppc = "call" /\ cursor \in DOMAIN private_ids) =>
       /\ request'.parent = sensor_ids[cursor]
       /\ request'.url = (IF private_ids[cursor] # 0 THEN "read_key" ELSE "plain")
       /\ request'.read_key = private_ids[cursor]
       /\ request'.header = ReadApiKey]_vars

(* ------------------------------- C15 ----------------------------------- *)
\* A record with a statistics blob whose 10-minute PM2.5 average is 12.0
\* has been processed without a failure.
Pm12Processed ==
  /\ pc = "loop"
  /\ sensor # << >>
  /\ sensor[1].stats = "ok"
  /\ sensor[1].pm = Num(Sample(1))

\* The AQandU and LRAPA gauges hold, for the current identity, the AQI of
\* the concentrations a and l (millionths), and a and l are what the two
\* corrections yield for the record's PM2.5 average.
CorrectedAre(a, l) ==
  LET c == pm25_clamped(sensor[1].pm.v)
  IN /\ pm25_AQandU(c) = a
     /\ pm25_LRAPA(c) = l
     /\ Has(metrics, "aqi_AQandU_g", CurId)
     /\ metrics["aqi_AQandU_g"][CurId] = to_iaqi(a)
     /\ Has(metrics, "aqi_LRAPA_g", CurId)
     /\ metrics["aqi_LRAPA_g"][CurId] = to_iaqi(l)

\* C15 as stated: for a 10-minute PM2.5 average of 12.0 the concentration
\* handed to the AQI conversion is 11.94 for the AQandU series and 5.34 for
\* the LRAPA series.
C15_Corrected_AsStated == Pm12Processed => CorrectedAre(11940000, 5340000)

\* C15, amended: for a 10-minute PM2.5 average of 12.0 the concentration
\* handed to the AQI conversion is 0.778*12.0+2.65 = 11.986 for the AQandU
\* series and max(0.5*12.0-0.66, 0) = 5.34 for the LRAPA series.
C15_CorrectedConcentrations == Pm12Processed => CorrectedAre(11986000, 5340000)

\* Such a record has been processed and its AQandU and LRAPA values are in
\* the gauges.
C15_Witness ==
  /\ Pm12Processed
  /\ Has(metrics, "aqi_AQandU_g", CurId)
  /\ Has(metrics, "aqi_LRAPA_g", CurId)

(* ------------------------------- C16 ----------------------------------- *)
\* The gauges the try block set from record r before the step that failed.
SetBeforeFailure(r) == {TryBody(r).ops[k].g : k \in 1..Len(TryBody(r).ops)}

\* C16: when the transform of a record fails at any step, no value computed
\* from that record stays exported once the failure has propagated: every
\* gauge the try block set from the record before the failing step holds
\* no entry for the record's identity.
C16_NoPartialExport ==
  TransformFailed => \A g \in SetBeforeFailure(sensor[1]) : ~Has(metrics, g, CurId)

(* ------------------------------- C17 ----------------------------------- *)
\* C17: the three PM2.5-derived outputs exist only together: in every
\* state between two record-processing steps, whatever successful
\* transforms, failed transforms and failed fetches came before, each
\* identity has an entry in all three of aqi_g, aqi_AQandU_g and
\* aqi_LRAPA_g or in none of them.
C17_PmOutputsTogether ==
  \A id \in Identities :
    \/ \A g \in PmGauges : Has(metrics, g, id)
    \/ \A g \in PmGauges : ~Has(metrics, g, id)

\* A record whose PM2.5 average was converted and set in the three gauges
\* has failed at a later step, and the three entries are gone again, while
\* another identity still has its three.
C17_Witness ==
  /\ TransformFailed
  /\ sensor[1].pm = Num(Sample(1))
  /\ \A g \in PmGauges : ~Has(metrics, g, CurId)
  /\ \E id \in Identities : \A g \in PmGauges : Has(metrics, g, id)

(* ------------------------------- C18 ----------------------------------- *)
\* C18: a transform failure for the record of identity I removes entries
\* of I only: every other identity (another record of the same response,
\* an identity of another parent sensor) has, in each gauge, exactly the
\* entries and values after the failing iteration that it had before it.
C18_FailureTouchesOneIdentity ==
  [][(IterStep /\ pc' = "raised") =>
       \A g \in Gauges : \A id \in Identities \ {<<call.parent, sensor'[1].idx>>} :
         /\ Has(metrics', g, id) <=> Has(metrics, g, id)
         /\ Has(metrics, g, id) => metrics'[g][id] = metrics[g][id]]_vars

\* The transform of a record has failed after its PM2.5 entries were set,
\* they have been removed, and another identity still holds the entries
\* an earlier record set for it.
C18_Witness ==
  /\ TransformFailed
  /\ sensor[1].pm = Num(Sample(1))
  /\ ~Has(metrics, "aqi_g", CurId)
  /\ \E id \in Identities \ {CurId} : \A g \in Gauges : Has(metrics, g, id)

(* ------------------------------- C19 ----------------------------------- *)
\* C19: a sensor is called only after every sensor before it in the list
\* has, on some tick, returned without raising: while the sensor at
\* position k fails on every tick, however many ticks pass, no sensor after
\* position k is fetched and no identity of a parent that only later
\* positions name has an entry in any gauge.
C19_FailingSensorStarvesLater ==
  /\ \A j \in called : \A k \in 1..(j - 1) : k \in returned
  /\ ppc # "off" =>
       \A g \in Gauges : \A id \in DOMAIN metrics[g] :
         \E j \in called : sensor_ids[j] = id[1]

\* A new tick starts after one that the first sensor's failure aborted:
\* the first sensor has been called and has never returned, and the sensor
\* after it has never been called.
C19_Witness ==
  /\ ppc = "call"
  /\ cursor = 1
  /\ exc # "none"
  /\ Len(sensor_ids) > 1
  /\ 1 \in called
  /\ 1 \notin returned
  /\ 2 \notin called

====
